---- MODULE Spec2Model ----
(***************************************************************************)
(* A model of the `network` crate: the compact-star representation of a    *)
(* directed network (compact_star.rs), the generic traversal behind        *)
(* breadth-first and depth-first search and the two Dijkstra variants      *)
(* (algorithms/search_algorithms.rs), the stack/queue containers           *)
(* (collections.rs), the binary and the Fibonacci heap (heaps.rs) and      *)
(* pagerank (algorithms/pagerank.rs).                                      *)
(*                                                                         *)
(* Rust vectors are 0-based; they are modelled as TLA+ sequences, and      *)
(* At(v, k) reads the element at Rust index k.  Costs and capacities are   *)
(* f64 in the code and naturals here: only sums and comparisons of small   *)
(* values are used, which are exact in both.  The ranks of pagerank are    *)
(* fractions: its arithmetic is modelled as exact.                         *)
(***************************************************************************)
EXTENDS Integers, Sequences, FiniteSets, TLC

VARIABLES
    pc,            \* position of the driver: which call runs / has returned
    nodes,         \* input: number of nodes handed to compact_star_from_edge_vec
    arcs,          \* input: the caller's arc list as handed in, <<from, to, cost, capacity>>
    edges,         \* the caller's vector `edges`, which the build sorts in place
    start,         \* input: start node of a search / source of Dijkstra
    cs,            \* the CompactStar built from the input
    discipline,    \* which Collection `search` runs on: "queue" or "stack"
    to_process,    \* search: the container (VecDeque contents, front first)
    marks,         \* search: marks[]
    pred_slice,    \* search: pred_slice[]
    order_slice,   \* search: order_slice[]
    next,          \* search: the counter `next`
    iterations,    \* search: how often the body of the while loop has run
    push_count,    \* search: how often each node was handed to to_process.push
    bfs_result,    \* (pred, order) returned by breadth_first_search
    dfs_result,    \* (pred, order) returned by depth_first_search
    temporary,     \* vanilla_dijkstra: temporary
    permanent,     \* vanilla_dijkstra: permanent
    d,             \* either Dijkstra variant: d[]
    pred,          \* either Dijkstra variant: pred[]
    heap,          \* heap_dijkstra: the BinaryHeap's backing vector
    marked,        \* heap_dijkstra: marked[]
    rounds,        \* either Dijkstra variant: how often the loop body has run
    finalized,     \* heap_dijkstra: the nodes in the order they were marked
    inserts,       \* heap_dijkstra: how often heap.insert was called
    vanilla_result,\* (pred, dist) returned by dijkstra(.., use_heap = false)
    heap_result,   \* (pred, dist) returned by dijkstra(.., use_heap = true)
    binary_heap,   \* heap tests: the BinaryHeap's backing vector
    fibonacci_heap,\* heap tests: the FibonacciHeap, None while none was made
    heap_log,      \* heap tests: the calls made so far, <<node, cost>> or <<>>
    beta,          \* input: pagerank's teleport probability, a rational <<p, q>>
    eps,           \* input: pagerank's tolerance, a rational <<p, q>>
    ranks,         \* pagerank: ranks
    new_ranks,     \* pagerank: new_ranks
    product,       \* pagerank: what mult_matrix_vec returned last, None before
    rank_round,    \* pagerank: the counter i
    rank_result    \* the vector returned by pagerank

vars == <<pc, nodes, arcs, edges, start, cs, discipline, to_process, marks,
          pred_slice, order_slice, next, iterations, push_count,
          bfs_result, dfs_result,
          temporary, permanent, d, pred, heap, marked,
          rounds, finalized, inserts,
          vanilla_result, heap_result,
          binary_heap, fibonacci_heap, heap_log,
          beta, eps, ranks, new_ranks, product, rank_round, rank_result>>

rankVars == <<beta, eps, ranks, new_ranks, product, rank_round, rank_result>>

heapVars == <<binary_heap, fibonacci_heap, heap_log>>

searchVars == <<discipline, to_process, marks, pred_slice, order_slice, next,
                iterations, push_count,
                bfs_result, dfs_result>>

inputVars == <<nodes, arcs, start>>

dijkstraVars == <<temporary, permanent, d, pred, heap, marked,
                  rounds, finalized, inserts,
                  vanilla_result, heap_result>>

----------------------------------------------------------------------------
(* Bounds of the model.                                                    *)

MaxNodes == 3
MaxArcs == 3
MaxCost == 2
MaxBuildCost == 1
MaxCap == 1
MaxSearchArcs == 4
MaxFairArcs == 3
MaxFairCost == 2
MaxHeapOps == 5
MaxHeapNode == 1
MaxHeapCost == 3
MaxRankArcs == 3
MaxRounds == 3

----------------------------------------------------------------------------
(* Vectors.                                                                *)

\* Option<T>: None is the empty sequence, Some(x) the one-element sequence.
None == <<>>
Some(x) == <<x>>
Unwrap(o) == o[1]

\* v[k] for a Rust index k (0-based).
At(v, k) == v[k + 1]

\* v.get(k): None when k is out of range.
Get(v, k) == IF k >= 0 /\ k < Len(v) THEN Some(v[k + 1]) ELSE None

\* vec![x; n]
Filled(x, n) == [k \in 1..n |-> x]

\* v with v[k] = x for a Rust index k.
Put(v, k, x) == [v EXCEPT ![k + 1] = x]

\* v.remove(k) for a Rust index k: the rest keeps its order.
Remove(v, k) == [i \in 1..(Len(v) - 1) |-> IF i <= k THEN v[i] ELSE v[i + 1]]

\* an arc tuple's fields
From(e) == e[1]
To(e) == e[2]
CostOf(e) == e[3]
CapOf(e) == e[4]

----------------------------------------------------------------------------
(* compact_star.rs                                                         *)

\* CompactStar::new
CompactStarNew ==
    [point |-> <<>>, rpoint |-> <<>>, tail |-> <<>>, head |-> <<>>,
     trace |-> <<>>, costs |-> <<>>, capacities |-> <<>>, cost_sum |-> 0]

\* InsertBySource as an unstable sort would do it: e goes in front of the
\* elements with its own source id.
RECURSIVE InsertBySourceUnstable(_, _)
InsertBySourceUnstable(e, sorted) ==
    IF sorted = <<>> THEN <<e>>
    ELSE IF From(sorted[Len(sorted)]) < From(e) THEN Append(sorted, e)
    ELSE Append(InsertBySourceUnstable(e, SubSeq(sorted, 1, Len(sorted) - 1)),
                sorted[Len(sorted)])

\* One step of a stable sort by source id: e goes behind every element whose
\* source is not larger than its own.
RECURSIVE InsertBySource(_, _)
InsertBySource(e, sorted) ==
    IF sorted = <<>> THEN <<e>>
    ELSE IF From(sorted[Len(sorted)]) <= From(e) THEN Append(sorted, e)
    ELSE Append(InsertBySource(e, SubSeq(sorted, 1, Len(sorted) - 1)),
                sorted[Len(sorted)])

\* edges.sort_by(|a, b| a.from.cmp(b.from)): slice::sort_by is a stable sort.
RECURSIVE SortBySourcePrefix(_, _)
SortBySourcePrefix(es, k) ==
    IF k = 0 THEN <<>>
    ELSE InsertBySource(es[k], SortBySourcePrefix(es, k - 1))

SortBySource(es) == SortBySourcePrefix(es, Len(es))

\* while point_index < bound { point.push(tail_index); point_index += 1 }
RECURSIVE PushPoints(_, _, _, _)
PushPoints(point, point_index, bound, tail_index) ==
    IF point_index < bound
    THEN PushPoints(Append(point, tail_index), point_index + 1, bound, tail_index)
    ELSE [point |-> point, point_index |-> point_index]

\* in_nodes.entry(to).or_insert(Vec::new()).push(tail_index); in_nodes is a
\* function whose domain is the set of keys of the HashMap.
InNodesPush(in_nodes, to, tail_index) ==
    IF to \in DOMAIN in_nodes
    THEN [in_nodes EXCEPT ![to] = Append(@, tail_index)]
    ELSE in_nodes @@ (to :> <<tail_index>>)

\* EdgeStep with the point entries pushed after tail_index was advanced.
EdgeStepLate(st, e) ==
    LET pushed == PushPoints(st.cs.point, st.point_index, From(e), st.tail_index + 1)
    IN  [cs |-> [st.cs EXCEPT !.tail = Append(@, From(e)),
                              !.head = Append(@, To(e)),
                              !.costs = Append(@, CostOf(e)),
                              !.cost_sum = @ + CostOf(e),
                              !.capacities = Append(@, CapOf(e)),
                              !.point = pushed.point],
         tail_index |-> st.tail_index + 1,
         point_index |-> pushed.point_index,
         in_nodes |-> InNodesPush(st.in_nodes, To(e), st.tail_index)]

\* The body of the loop over the sorted arcs, iteration k (1-based).
\* st = [cs, tail_index, point_index, in_nodes].
EdgeStep(st, e) ==
    LET pushed == PushPoints(st.cs.point, st.point_index, From(e), st.tail_index)
    IN  [cs |-> [st.cs EXCEPT !.tail = Append(@, From(e)),
                              !.head = Append(@, To(e)),
                              !.costs = Append(@, CostOf(e)),
                              !.cost_sum = @ + CostOf(e),
                              !.capacities = Append(@, CapOf(e)),
                              !.point = pushed.point],
         tail_index |-> st.tail_index + 1,
         point_index |-> pushed.point_index,
         in_nodes |-> InNodesPush(st.in_nodes, To(e), st.tail_index)]

RECURSIVE EdgeLoop(_, _)
EdgeLoop(es, k) ==
    IF k = 0
    THEN [cs |-> [CompactStarNew EXCEPT !.point = <<0>>],
          tail_index |-> 0, point_index |-> 0, in_nodes |-> <<>>]
    ELSE EdgeStep(EdgeLoop(es, k - 1), es[k])

\* RpointLoop with rpoint pushed after the node's trace entries were counted.
RECURSIVE RpointLoopLate(_, _)
RpointLoopLate(in_nodes, k) ==
    IF k = 0 THEN [rpoint |-> <<>>, trace |-> <<>>, head_index |-> 0]
    ELSE LET acc == RpointLoopLate(in_nodes, k - 1)
             i == k - 1
             ids == IF i \in DOMAIN in_nodes THEN in_nodes[i] ELSE <<>>
         IN  [rpoint |-> Append(acc.rpoint, acc.head_index + Len(ids)),
              trace |-> acc.trace \o ids,
              head_index |-> acc.head_index + Len(ids)]

\* for index in 0..nodes { rpoint.push(head_index); trace.extend(in_nodes[i]) }
\* acc = [rpoint, trace, head_index]
RECURSIVE RpointLoop(_, _)
RpointLoop(in_nodes, k) ==
    IF k = 0 THEN [rpoint |-> <<>>, trace |-> <<>>, head_index |-> 0]
    ELSE LET acc == RpointLoop(in_nodes, k - 1)
             i == k - 1
             ids == IF i \in DOMAIN in_nodes THEN in_nodes[i] ELSE <<>>
         IN  [rpoint |-> Append(acc.rpoint, acc.head_index),
              trace |-> acc.trace \o ids,
              head_index |-> acc.head_index + Len(ids)]

\* compact_star_from_edge_vec without the loop that fills point for the
\* nodes behind the last source.
CompactStarFromEdgeVecNoFill(n, es) ==
    LET st == EdgeLoop(SortBySource(es), Len(es))
        r == RpointLoop(st.in_nodes, n)
    IN  [st.cs EXCEPT !.point = Append(st.cs.point, st.tail_index),
                      !.rpoint = Append(r.rpoint, r.head_index),
                      !.trace = r.trace]

\* compact_star_from_edge_vec(n, es)
CompactStarFromEdgeVec(n, es) ==
    LET st == EdgeLoop(SortBySource(es), Len(es))
        r == RpointLoop(st.in_nodes, n)
        rest == PushPoints(st.cs.point, st.point_index, n - 1, st.tail_index)
    IN  [st.cs EXCEPT !.point = Append(rest.point, st.tail_index),
                      !.rpoint = Append(r.rpoint, r.head_index),
                      !.trace = r.trace]

\* Network::num_nodes
NumNodes(c) == IF Len(c.point) > 0 THEN Len(c.point) - 1 ELSE Len(c.point)

\* Network::num_arcs
NumArcs(c) == Len(c.tail)

\* Network::invalid_id
InvalidId(c) == Len(c.point) - 1

\* Network::infinity
Infinity(c) == c.cost_sum

\* Network::adjacent
Adjacent(c, from) ==
    IF Get(c.point, from) = None \/ Get(c.point, from + 1) = None THEN <<>>
    ELSE LET lower == At(c.point, from)
             upper == At(c.point, from + 1)
         IN  [k \in 1..(upper - lower) |-> At(c.head, lower + k - 1)]

\* get_head that keeps scanning and returns the last match
GetHeadLast(c, from, to) ==
    IF Get(c.point, from) = None \/ Get(c.point, from + 1) = None THEN None
    ELSE LET lower == At(c.point, from)
             upper == At(c.point, from + 1)
             hits == {k \in lower..(upper - 1) : At(c.head, k) = to}
         IN  IF hits = {} THEN None
             ELSE Some(CHOOSE k \in hits : \A h \in hits : k >= h)

\* CompactStar::get_head: the first index in the outgoing range with head = to
GetHead(c, from, to) ==
    IF Get(c.point, from) = None \/ Get(c.point, from + 1) = None THEN None
    ELSE LET lower == At(c.point, from)
             upper == At(c.point, from + 1)
             hits == {k \in lower..(upper - 1) : At(c.head, k) = to}
         IN  IF hits = {} THEN None
             ELSE Some(CHOOSE k \in hits : \A h \in hits : k <= h)

\* get that substitutes 0 for a missing arc
GetFieldDefault(c, from, to, vec) ==
    LET index == GetHead(c, from, to)
    IN  IF index = None THEN Some(0) ELSE Get(vec, Unwrap(index))

\* CompactStar::get
GetField(c, from, to, vec) ==
    LET index == GetHead(c, from, to)
    IN  IF index = None THEN None ELSE Get(vec, Unwrap(index))

\* Network::cost
Cost(c, i, j) == GetField(c, i, j, c.costs)

\* Network::capacity
Capacity(c, i, j) == GetField(c, i, j, c.capacities)

----------------------------------------------------------------------------
(* Inputs.                                                                 *)

\* every arc over the ids 0..n-1 with the given costs and capacities
ArcsOver(n, costSet, capSet) == (0..(n - 1)) \X (0..(n - 1)) \X costSet \X capSet

\* every arc list of at most m arcs
ArcLists(arcSet, m) == UNION {[1..k -> arcSet] : k \in 0..m}

\* the working state of the algorithms before any of them has been called
Idle ==
    /\ discipline = "none"
    /\ to_process = <<>>
    /\ marks = <<>>
    /\ pred_slice = <<>>
    /\ order_slice = <<>>
    /\ next = 0
    /\ iterations = 0
    /\ push_count = <<>>
    /\ bfs_result = None
    /\ dfs_result = None
    /\ temporary = <<>>
    /\ permanent = <<>>
    /\ d = <<>>
    /\ pred = <<>>
    /\ heap = <<>>
    /\ marked = <<>>
    /\ rounds = 0
    /\ finalized = <<>>
    /\ inserts = 0
    /\ vanilla_result = None
    /\ heap_result = None

\* no heap test runs
NoHeaps ==
    /\ binary_heap = <<>>
    /\ fibonacci_heap = None
    /\ heap_log = <<>>

\* pagerank has not been called
NoRanks ==
    /\ ranks = <<>>
    /\ new_ranks = <<>>
    /\ product = None
    /\ rank_round = 0
    /\ rank_result = None

\* the caller holds an arc list and has not built the network yet
NotBuilt ==
    /\ pc = "start"
    /\ edges = arcs
    /\ cs = CompactStarNew
    /\ NoHeaps
    /\ beta = None
    /\ eps = None
    /\ NoRanks
    /\ Idle

----------------------------------------------------------------------------
(* Building the network.                                                   *)

\* let compact_star = compact_star_from_edge_vec(nodes, &mut edges);
Build ==
    /\ pc = "start"
    /\ pc' = "built"
    /\ edges' = SortBySource(edges)
    /\ cs' = CompactStarFromEdgeVec(nodes, edges)
    /\ UNCHANGED <<inputVars, heapVars, rankVars, searchVars, dijkstraVars>>

Init ==
    /\ nodes \in 1..MaxNodes
    /\ arcs \in ArcLists(ArcsOver(nodes, 0..MaxBuildCost, 0..MaxCap), MaxArcs)
    /\ start = 0
    /\ NotBuilt

Next == Build

Spec == Init /\ [][Next]_vars

\* a caller whose arc list may name the id `nodes`, one past the valid ids
InitAnyIds ==
    /\ nodes \in 1..MaxNodes
    /\ arcs \in ArcLists(ArcsOver(nodes + 1, {1}, {0}), MaxArcs)
    /\ start = 0
    /\ NotBuilt

SpecAnyIds == InitAnyIds /\ [][Next]_vars

----------------------------------------------------------------------------
(* collections.rs: Queue and Stack over a VecDeque, front first.           *)

\* push that stores the element at the front
PushFront(c, element) == <<element>> \o c

\* Peek that reads the back for both containers.
PeekAlwaysBack(disc, c) == IF c = <<>> THEN None ELSE Some(c[Len(c)])

\* push that stores the element twice
PushTwice(c, element) == Append(Append(c, element), element)

\* Queue::push / Stack::push: push_back
Push(c, element) == Append(c, element)

\* Pop that takes the back for both containers.
PopAlwaysBack(disc, c) == SubSeq(c, 1, Len(c) - 1)

\* Queue::pop (pop_front) / Stack::pop (pop_back): the container afterwards
Pop(disc, c) ==
    IF c = <<>> THEN c
    ELSE IF disc = "queue" THEN Tail(c)
    ELSE SubSeq(c, 1, Len(c) - 1)

\* Peek that reads the front for both containers.
PeekAlwaysFront(disc, c) == IF c = <<>> THEN None ELSE Some(Head(c))

\* Queue::peek (front) / Stack::peek (back)
Peek(disc, c) ==
    IF c = <<>> THEN None
    ELSE IF disc = "queue" THEN Some(Head(c))
    ELSE Some(c[Len(c)])

\* Queue::is_empty / Stack::is_empty
IsEmpty(c) == c = <<>>

----------------------------------------------------------------------------
(* algorithms/search_algorithms.rs: search                                 *)

\* for candidate in adj { if !marks[candidate] { j = candidate; break } }
RECURSIVE FirstUnmarked(_, _, _, _)
FirstUnmarked(adj, k, mk, no_pred) ==
    IF k > Len(adj) THEN no_pred
    ELSE IF ~At(mk, adj[k]) THEN adj[k]
    ELSE FirstUnmarked(adj, k + 1, mk, no_pred)

\* search, up to and including to_process.push(start)
SearchEnter(disc) ==
    LET n == NumNodes(cs)
        no_pred == InvalidId(cs)
    IN  /\ discipline' = disc
        /\ pred_slice' = Filled(no_pred, n)
        /\ next' = 0
        /\ marks' = Put(Filled(FALSE, n), start, TRUE)
        /\ order_slice' = Put(Filled(0, n), start, start)
        /\ to_process' = Push(<<>>, start)
        /\ iterations' = 0
        /\ push_count' = Put(Filled(0, n), start, 1)
        /\ pc' = "search"

\* breadth_first_search(&compact_star, start): search on a Queue
BreadthFirstSearch ==
    /\ pc = "built"
    /\ SearchEnter("queue")
    /\ UNCHANGED <<inputVars, heapVars, rankVars, edges, cs, bfs_result, dfs_result, dijkstraVars>>

\* depth_first_search(&compact_star, start): search on a Stack
DepthFirstSearch ==
    /\ pc = "bfs_done"
    /\ SearchEnter("stack")
    /\ UNCHANGED <<inputVars, heapVars, rankVars, edges, cs, bfs_result, dfs_result, dijkstraVars>>

\* one iteration of `while !to_process.is_empty()`
SearchStep ==
    /\ pc = "search"
    /\ ~IsEmpty(to_process)
    /\ LET no_pred == InvalidId(cs)
           i == Unwrap(Peek(discipline, to_process))
           j == FirstUnmarked(Adjacent(cs, i), 1, marks, no_pred)
       IN  IF j # no_pred
           THEN /\ marks' = Put(marks, j, TRUE)
                /\ pred_slice' = Put(pred_slice, j, i)
                /\ next' = next + 1
                /\ order_slice' = Put(order_slice, j, next + 1)
                /\ to_process' = Push(to_process, j)
                /\ push_count' = Put(push_count, j, At(push_count, j) + 1)
           ELSE /\ to_process' = Pop(discipline, to_process)
                /\ UNCHANGED <<marks, pred_slice, next, order_slice, push_count>>
    /\ iterations' = iterations + 1
    /\ UNCHANGED <<pc, inputVars, heapVars, rankVars, edges, cs, discipline, bfs_result, dfs_result,
                   dijkstraVars>>

\* the loop has ended: (pred, order) is copied out and returned
SearchReturn ==
    /\ pc = "search"
    /\ IsEmpty(to_process)
    /\ IF discipline = "queue"
       THEN /\ bfs_result' = <<pred_slice, order_slice>>
            /\ pc' = "bfs_done"
            /\ UNCHANGED dfs_result
       ELSE /\ dfs_result' = <<pred_slice, order_slice>>
            /\ pc' = "dfs_done"
            /\ UNCHANGED bfs_result
    /\ UNCHANGED <<inputVars, heapVars, rankVars, edges, cs, discipline, to_process, marks,
                   pred_slice, order_slice, next, iterations, push_count,
                   dijkstraVars>>

\* the network of the doc comment of breadth_first_search
DocEdges ==
    << <<0, 1, 25, 30>>, <<0, 2, 35, 50>>, <<1, 3, 15, 40>>, <<2, 1, 45, 10>>,
       <<3, 2, 15, 30>>, <<3, 4, 45, 60>>, <<4, 2, 25, 20>>, <<4, 3, 35, 50>> >>

InitSearch ==
    /\ \/ /\ nodes \in 1..MaxNodes
          /\ arcs \in ArcLists(ArcsOver(nodes, {1}, {0}), MaxSearchArcs)
          /\ start \in 0..(nodes - 1)
       \/ /\ nodes = 5
          /\ arcs = DocEdges
          /\ start = 0
    /\ NotBuilt

NextSearch ==
    \/ Build
    \/ BreadthFirstSearch
    \/ DepthFirstSearch
    \/ SearchStep
    \/ SearchReturn

SpecSearch == InitSearch /\ [][NextSearch]_vars

\* the callers of the two searches, on arc lists of up to MaxFairArcs arcs
InitSearchFair ==
    /\ nodes \in 1..MaxNodes
    /\ arcs \in ArcLists(ArcsOver(nodes, {1}, {0}), MaxFairArcs)
    /\ start \in 0..(nodes - 1)
    /\ NotBuilt

\* a search that was entered runs on: the loop takes its next iteration while
\* the container is not empty, and the call returns once it is
SpecSearchFair ==
    /\ InitSearchFair
    /\ [][NextSearch]_vars
    /\ WF_vars(SearchStep)
    /\ WF_vars(SearchReturn)

----------------------------------------------------------------------------
(* heaps.rs: HeapMember and BinaryHeap.  BinaryHeap wraps the standard     *)
(* library's max-heap; push and pop are modelled as the library performs   *)
(* them on the backing vector (sift_up, sift_down_to_bottom), because the  *)
(* order in which entries of equal cost leave the heap depends on it.      *)

\* HeapMember { key, cost }
HeapMember(key, cost) == [key |-> key, cost |-> cost]

\* PartialOrd::le for HeapMember
Le(a, b) == a.cost <= b.cost

\* data with the elements at Rust indices i and j exchanged
Swap(data, i, j) == [data EXCEPT ![i + 1] = data[j + 1], ![j + 1] = data[i + 1]]

\* sift_up that leaves the pushed element where it is
SiftUpNever(data, begin, pos) == data

\* sift_up(start, pos): the element at pos rises while it is larger than its parent
RECURSIVE SiftUp(_, _, _)
SiftUp(data, begin, pos) ==
    IF pos > begin
    THEN LET parent == (pos - 1) \div 2
         IN  IF Le(At(data, pos), At(data, parent)) THEN data
             ELSE SiftUp(Swap(data, pos, parent), begin, parent)
    ELSE data

\* sift_down_to_bottom: the element at pos sinks to a leaf along the larger
\* children (the right one on a tie), then rises again from there
RECURSIVE SiftDownToBottom(_, _, _)
SiftDownToBottom(data, begin, pos) ==
    LET end == Len(data)
        child == 2 * pos + 1
    IN  IF child + 2 <= end
        THEN LET larger == IF Le(At(data, child), At(data, child + 1))
                           THEN child + 1 ELSE child
             IN  SiftDownToBottom(Swap(data, pos, larger), begin, larger)
        ELSE IF child = end - 1
        THEN SiftUp(Swap(data, pos, child), begin, child)
        ELSE SiftUp(data, begin, pos)

\* BinaryHeap::new
HeapNew == <<>>

\* BinaryHeap::insert: inner_heap.push(HeapMember { key, cost: -cost })
HeapInsert(h, node_id, cost) ==
    SiftUp(Append(h, HeapMember(node_id, 0 - cost)), 0, Len(h))

\* BinaryHeap::find_min: inner_heap.peek()
HeapFindMin(h) == IF h = <<>> THEN None ELSE Some(At(h, 0).key)

\* BinaryHeap::delete_min: inner_heap.pop()
HeapDeleteMin(h) ==
    IF h = <<>> THEN h
    ELSE LET item == h[Len(h)]
             rest == SubSeq(h, 1, Len(h) - 1)
         IN  IF rest = <<>> THEN rest
             ELSE SiftDownToBottom(Put(rest, 0, item), 0, 0)

\* BinaryHeap::size
HeapSize(h) == Len(h)

\* BinaryHeap::is_empty
HeapIsEmpty(h) == h = <<>>

\* x < bound where bound is None while it is still INF, the f64 infinity
BelowInf(x, bound) == bound = None \/ x < Unwrap(bound)

----------------------------------------------------------------------------
(* heaps.rs: FibonacciHeap.  The field `panicked` is set by the first      *)
(* operation that panics (unwrap of None, index out of bounds).            *)

\* FibElement { heap_member, rank, children }
FibElement(member, rank, children) ==
    [heap_member |-> member, rank |-> rank, children |-> children]

\* FibonacciHeap::new
FibNew == [min_elem |-> None, root |-> <<>>, size |-> 0, panicked |-> FALSE]

\* the heap after a panic of one of its methods
Panic(h) == [h EXCEPT !.panicked = TRUE]

\* FibonacciHeap::remove_min: min_elem.take().unwrap(), children pushed to root
RemoveMin(h) ==
    IF h.min_elem = None THEN Panic(h)
    ELSE [h EXCEPT !.min_elem = None,
                   !.root = @ \o Unwrap(h.min_elem).children]

\* FibonacciHeap::link: both removals index root as it is at that moment
Link(h, i, j) ==
    IF i >= Len(h.root) THEN Panic(h)
    ELSE LET elem_i == At(h.root, i)
             rest == Remove(h.root, i)
         IN  IF j >= Len(rest) THEN Panic([h EXCEPT !.root = rest])
             ELSE LET elem_j == At(rest, j)
                      others == Remove(rest, j)
                  IN  IF elem_i.heap_member.cost < elem_j.heap_member.cost
                      THEN [h EXCEPT !.root = Append(others,
                               FibElement(elem_i.heap_member, elem_i.rank + 1,
                                          Append(elem_i.children, elem_j)))]
                      ELSE [h EXCEPT !.root = Append(others,
                               FibElement(elem_j.heap_member, elem_j.rank + 1,
                                          Append(elem_j.children, elem_i)))]

\* the loop of not_all_different from index i on: "yes", "no", or "panic"
\* where root_degrees[rank] lies outside root_degrees
RECURSIVE NotAllDifferentFrom(_, _, _)
NotAllDifferentFrom(h, root_degrees, i) ==
    IF i >= Len(h.root) THEN "no"
    ELSE LET rank == At(h.root, i).rank
         IN  IF rank >= Len(root_degrees) THEN "panic"
             ELSE IF At(root_degrees, rank) # h.size THEN "yes"
             ELSE NotAllDifferentFrom(h, Put(root_degrees, rank, i), i + 1)

\* FibonacciHeap::not_all_different
NotAllDifferent(h) == NotAllDifferentFrom(h, Filled(h.size, Len(h.root)), 0)

\* the for loop of merge_roots from index i on, up to its break
RECURSIVE MergePass(_, _, _)
MergePass(h, root_degrees, i) ==
    IF i >= Len(h.root) THEN [heap |-> h, root_degrees |-> root_degrees]
    ELSE LET rank == At(h.root, i).rank
         IN  IF rank >= Len(root_degrees)
             THEN [heap |-> Panic(h), root_degrees |-> root_degrees]
             ELSE IF At(root_degrees, rank) # h.size
             THEN [heap |-> Link(h, At(root_degrees, rank), i),
                   root_degrees |-> Put(root_degrees, rank, h.size)]
             ELSE MergePass(h, Put(root_degrees, rank, i), i + 1)

\* the while loop of merge_roots; root_degrees is kept across its rounds
RECURSIVE MergeWhile(_, _)
MergeWhile(h, root_degrees) ==
    IF h.panicked THEN h
    ELSE LET different == NotAllDifferent(h)
         IN  IF different = "panic" THEN Panic(h)
             ELSE IF different = "no" THEN h
             ELSE LET pass == MergePass(h, root_degrees, 0)
                  IN  MergeWhile(pass.heap, pass.root_degrees)

\* FibonacciHeap::merge_roots
MergeRoots(h) ==
    IF h.panicked THEN h ELSE MergeWhile(h, Filled(h.size, Len(h.root)))

\* the loop of update_min: the first index of the least cost, 0 on an empty root
RECURSIVE MinId(_, _, _, _)
MinId(root, i, min_id, min_cost) ==
    IF i >= Len(root) THEN min_id
    ELSE IF BelowInf(At(root, i).heap_member.cost, min_cost)
    THEN MinId(root, i + 1, i, Some(At(root, i).heap_member.cost))
    ELSE MinId(root, i + 1, min_id, min_cost)

\* FibonacciHeap::update_min: root.remove(min_id) panics on an empty root
UpdateMin(h) ==
    IF h.panicked THEN h
    ELSE LET min_id == MinId(h.root, 0, 0, None)
         IN  IF min_id >= Len(h.root) THEN Panic(h)
             ELSE [h EXCEPT !.min_elem = Some(At(h.root, min_id)),
                            !.root = Remove(h.root, min_id)]

\* FibonacciHeap::find_min
FibFindMin(h) ==
    IF h.min_elem = None THEN None ELSE Some(Unwrap(h.min_elem).heap_member.key)

\* FibonacciHeap::size
FibSize(h) == h.size

\* FibonacciHeap::is_empty
FibIsEmpty(h) == h.size = 0

\* FibonacciHeap::insert
FibInsert(h, node, cost) ==
    LET new_elem == FibElement(HeapMember(node, cost), 0, <<>>)
    IN  IF FibIsEmpty(h)
        THEN [h EXCEPT !.min_elem = Some(new_elem), !.size = @ + 1]
        ELSE IF h.min_elem = None THEN Panic(h)
        ELSE IF cost < Unwrap(h.min_elem).heap_member.cost
        THEN [h EXCEPT !.root = Append(@, Unwrap(h.min_elem)),
                       !.min_elem = Some(new_elem),
                       !.size = @ + 1]
        ELSE [h EXCEPT !.root = Append(@, new_elem), !.size = @ + 1]

\* FibonacciHeap::delete_min
FibDeleteMin(h) ==
    IF FibIsEmpty(h) THEN h
    ELSE UpdateMin(MergeRoots(RemoveMin([h EXCEPT !.size = @ - 1])))

----------------------------------------------------------------------------
(* The heap tests: the same calls are made on a BinaryHeap and on a        *)
(* FibonacciHeap; the test of a heap that panicked has ended.              *)

\* what the call does to the FibonacciHeap's test
OnFibonacci(after) ==
    fibonacci_heap' = IF fibonacci_heap.panicked THEN fibonacci_heap ELSE after

\* heap.insert(node, cost)
Insert ==
    /\ pc = "heap_test"
    /\ Len(heap_log) < MaxHeapOps
    /\ \E node \in 0..MaxHeapNode, cost \in 0..MaxHeapCost :
          /\ binary_heap' = HeapInsert(binary_heap, node, cost)
          /\ OnFibonacci(FibInsert(fibonacci_heap, node, cost))
          /\ heap_log' = Append(heap_log, <<node, cost>>)
    /\ UNCHANGED <<pc, inputVars, rankVars, edges, cs, searchVars, dijkstraVars>>

\* heap.delete_min()
DeleteMin ==
    /\ pc = "heap_test"
    /\ Len(heap_log) < MaxHeapOps
    /\ binary_heap' = HeapDeleteMin(binary_heap)
    /\ OnFibonacci(FibDeleteMin(fibonacci_heap))
    /\ heap_log' = Append(heap_log, <<>>)
    /\ UNCHANGED <<pc, inputVars, rankVars, edges, cs, searchVars, dijkstraVars>>

\* let mut binary_heap = BinaryHeap::new(); let mut fibonacci_heap = FibonacciHeap::new()
InitHeap ==
    /\ pc = "heap_test"
    /\ nodes = 1
    /\ arcs = <<>>
    /\ start = 0
    /\ edges = <<>>
    /\ cs = CompactStarNew
    /\ Idle
    /\ beta = None
    /\ eps = None
    /\ NoRanks
    /\ binary_heap = HeapNew
    /\ fibonacci_heap = FibNew
    /\ heap_log = <<>>

NextHeap ==
    \/ Insert
    \/ DeleteMin

SpecHeap == InitHeap /\ [][NextHeap]_vars

----------------------------------------------------------------------------
(* algorithms/search_algorithms.rs: the two Dijkstra variants              *)

\* INF is the f64 infinity: every distance is below it.  A running minimum
\* is None while it is still INF.
BelowMin(x, min) == min = None \/ x < Unwrap(min)

\* find_min that takes the largest distance
RECURSIVE FindMinLargest(_, _, _, _, _)
FindMinLargest(to_check, k, distances, min, min_id) ==
    IF k > Len(to_check) THEN min_id
    ELSE LET node == to_check[k]
         IN  IF min = None \/ At(distances, node) > Unwrap(min)
             THEN FindMinLargest(to_check, k + 1, distances, Some(At(distances, node)), node)
             ELSE FindMinLargest(to_check, k + 1, distances, min, min_id)

\* find_min: the loop from position k on, with the running min and min_id
RECURSIVE FindMinFrom(_, _, _, _, _)
FindMinFrom(to_check, k, distances, min, min_id) ==
    IF k > Len(to_check) THEN min_id
    ELSE LET node == to_check[k]
         IN  IF BelowMin(At(distances, node), min)
             THEN FindMinFrom(to_check, k + 1, distances, Some(At(distances, node)), node)
             ELSE FindMinFrom(to_check, k + 1, distances, min, min_id)

\* find_min(to_check, distances)
FindMin(to_check, distances) ==
    FindMinFrom(to_check, 1, distances, None, Len(distances))

\* find_min_index that always answers 0
FindMinIndexZero(list, node) == 0

\* find_min_index(list, node): the last position of node, 0 when absent
FindMinIndex(list, node) ==
    LET hits == {i \in 0..(Len(list) - 1) : At(list, i) = node}
    IN  IF hits = {} THEN 0 ELSE CHOOSE i \in hits : \A h \in hits : h <= i

\* the body of vanilla_dijkstra's loop over the adjacent nodes; st = [d, pred]
VanillaRelax(st, next_node, adjacent_node) ==
    LET cost == Unwrap(Cost(cs, next_node, adjacent_node))
    IN  IF At(st.d, adjacent_node) > At(st.d, next_node) + cost
        THEN [d |-> Put(st.d, adjacent_node, At(st.d, next_node) + cost),
              pred |-> Put(st.pred, adjacent_node, next_node)]
        ELSE st

RECURSIVE VanillaRelaxAll(_, _, _, _)
VanillaRelaxAll(st, next_node, adj, k) ==
    IF k = 0 THEN st
    ELSE VanillaRelax(VanillaRelaxAll(st, next_node, adj, k - 1), next_node, adj[k])

\* a relaxation that stores the arc's cost instead of the path's
HeapRelaxArcCostOnly(st, next_node, adjacent_node) ==
    LET cost == Unwrap(Cost(cs, next_node, adjacent_node))
    IN  IF At(st.d, adjacent_node) > At(st.d, next_node) + cost
        THEN [d |-> Put(st.d, adjacent_node, cost),
              pred |-> Put(st.pred, adjacent_node, next_node),
              heap |-> HeapInsert(st.heap, adjacent_node, cost)]
        ELSE st

\* a relaxation that also acts when the distance only ties
HeapRelaxOnTie(st, next_node, adjacent_node) ==
    LET cost == Unwrap(Cost(cs, next_node, adjacent_node))
    IN  IF At(st.d, adjacent_node) >= At(st.d, next_node) + cost
        THEN [d |-> Put(st.d, adjacent_node, At(st.d, next_node) + cost),
              pred |-> Put(st.pred, adjacent_node, next_node),
              heap |-> HeapInsert(st.heap, adjacent_node, At(st.d, next_node) + cost)]
        ELSE st

\* the body of heap_dijkstra's loop over the adjacent nodes; st = [d, pred, heap]
HeapRelax(st, next_node, adjacent_node) ==
    LET cost == Unwrap(Cost(cs, next_node, adjacent_node))
    IN  IF At(st.d, adjacent_node) > At(st.d, next_node) + cost
        THEN [d |-> Put(st.d, adjacent_node, At(st.d, next_node) + cost),
              pred |-> Put(st.pred, adjacent_node, next_node),
              heap |-> HeapInsert(st.heap, adjacent_node, At(st.d, next_node) + cost)]
        ELSE st

RECURSIVE HeapRelaxAll(_, _, _, _)
HeapRelaxAll(st, next_node, adj, k) ==
    IF k = 0 THEN st
    ELSE HeapRelax(HeapRelaxAll(st, next_node, adj, k - 1), next_node, adj[k])

\* the sequence 0, 1, .., n-1
Iota(n) == [k \in 1..n |-> k - 1]

\* dijkstra(&compact_star, source, false): vanilla_dijkstra up to its loop
VanillaDijkstra ==
    /\ pc = "built"
    /\ pc' = "vanilla"
    /\ temporary' = Iota(NumNodes(cs))
    /\ permanent' = <<>>
    /\ pred' = Filled(InvalidId(cs), NumNodes(cs))
    /\ d' = Put(Filled(Infinity(cs), NumNodes(cs)), start, 0)
    /\ rounds' = 0
    /\ UNCHANGED <<inputVars, heapVars, rankVars, edges, cs, searchVars, heap, marked,
                   finalized, inserts, vanilla_result, heap_result>>

\* one iteration of `while permanent.len() < n`
VanillaStep ==
    /\ pc = "vanilla"
    /\ Len(permanent) < NumNodes(cs)
    /\ LET next_node == FindMin(temporary, d)
           index_in_temporary == FindMinIndex(temporary, next_node)
           adj == Adjacent(cs, next_node)
           st == VanillaRelaxAll([d |-> d, pred |-> pred], next_node, adj, Len(adj))
       IN  /\ permanent' = Append(permanent, At(temporary, index_in_temporary))
           /\ temporary' = Remove(temporary, index_in_temporary)
           /\ d' = st.d
           /\ pred' = st.pred
    /\ rounds' = rounds + 1
    /\ UNCHANGED <<pc, inputVars, heapVars, rankVars, edges, cs, searchVars, heap, marked,
                   finalized, inserts, vanilla_result, heap_result>>

\* vanilla_dijkstra returns (pred_vec, dist_vec)
VanillaReturn ==
    /\ pc = "vanilla"
    /\ ~(Len(permanent) < NumNodes(cs))
    /\ pc' = "vanilla_done"
    /\ vanilla_result' = <<pred, d>>
    /\ UNCHANGED <<inputVars, heapVars, rankVars, edges, cs, searchVars,
                   temporary, permanent, d, pred,
                   heap, marked, rounds, finalized, inserts, heap_result>>

\* dijkstra(&compact_star, source, true): heap_dijkstra up to its loop
HeapDijkstra ==
    /\ pc = "vanilla_done"
    /\ pc' = "heap"
    /\ heap' = HeapInsert(HeapNew, start, 0)
    /\ pred' = Filled(InvalidId(cs), NumNodes(cs))
    /\ d' = Put(Filled(Infinity(cs), NumNodes(cs)), start, 0)
    /\ marked' = Filled(FALSE, NumNodes(cs))
    /\ rounds' = 0
    /\ finalized' = <<>>
    /\ inserts' = 1
    /\ UNCHANGED <<inputVars, heapVars, rankVars, edges, cs, searchVars, temporary, permanent,
                   vanilla_result, heap_result>>

\* one iteration of `while !heap.is_empty()`
HeapStep ==
    /\ pc = "heap"
    /\ ~HeapIsEmpty(heap)
    /\ LET next_node == Unwrap(HeapFindMin(heap))
           popped == HeapDeleteMin(heap)
           adj == Adjacent(cs, next_node)
           st == HeapRelaxAll([d |-> d, pred |-> pred, heap |-> popped],
                              next_node, adj, Len(adj))
       IN  IF At(marked, next_node)
           THEN /\ heap' = popped
                /\ UNCHANGED <<marked, d, pred, finalized, inserts>>
           ELSE /\ marked' = Put(marked, next_node, TRUE)
                /\ finalized' = Append(finalized, next_node)
                /\ d' = st.d
                /\ pred' = st.pred
                /\ heap' = st.heap
                /\ inserts' = inserts + (Len(st.heap) - Len(popped))
    /\ rounds' = rounds + 1
    /\ UNCHANGED <<pc, inputVars, heapVars, rankVars, edges, cs, searchVars, temporary, permanent,
                   vanilla_result, heap_result>>

\* heap_dijkstra returns (pred_vec, dist_vec)
HeapReturn ==
    /\ pc = "heap"
    /\ HeapIsEmpty(heap)
    /\ pc' = "heap_done"
    /\ heap_result' = <<pred, d>>
    /\ UNCHANGED <<inputVars, heapVars, rankVars, edges, cs, searchVars,
                   temporary, permanent, d, pred,
                   heap, marked, rounds, finalized, inserts, vanilla_result>>

\* the network of test_dijkstra and test_heap_dijkstra
TestEdges ==
    << <<0, 1, 6, 0>>, <<0, 2, 4, 0>>, <<1, 2, 2, 0>>, <<1, 3, 2, 0>>, <<2, 3, 1, 0>>,
       <<2, 4, 2, 0>>, <<3, 5, 7, 0>>, <<4, 3, 1, 0>>, <<4, 5, 3, 0>> >>

\* the arcs 0->1, 0->2, 1->3, 2->3 with every choice of costs: two routes
\* from node 0 to node 3
DiamondArcSets ==
    {{<<0, 1, c[1], 0>>, <<0, 2, c[2], 0>>, <<1, 3, c[3], 0>>, <<2, 3, c[4], 0>>} :
        c \in [1..4 -> 1..MaxCost]}

\* every order in which the arcs of S can be listed
ListingsOf(S) ==
    {f \in [1..Cardinality(S) -> S] : \A i, j \in 1..Cardinality(S) : f[i] = f[j] => i = j}

InitDijkstra ==
    /\ \/ /\ nodes \in 1..MaxNodes
          /\ arcs \in ArcLists(ArcsOver(nodes, 0..MaxCost, {0}), MaxArcs)
          /\ start \in 0..(nodes - 1)
       \/ /\ nodes = 4
          /\ arcs \in UNION {ListingsOf(S) : S \in DiamondArcSets}
          /\ start \in 0..3
       \/ /\ nodes = 6
          /\ arcs = TestEdges
          /\ start = 0
    /\ NotBuilt

NextDijkstra ==
    \/ Build
    \/ VanillaDijkstra
    \/ VanillaStep
    \/ VanillaReturn
    \/ HeapDijkstra
    \/ HeapStep
    \/ HeapReturn

SpecDijkstra == InitDijkstra /\ [][NextDijkstra]_vars

\* the callers of dijkstra, on arc lists of up to MaxFairArcs arcs with costs
\* up to MaxFairCost
InitDijkstraFair ==
    /\ nodes \in 1..MaxNodes
    /\ arcs \in ArcLists(ArcsOver(nodes, 0..MaxFairCost, {0}), MaxFairArcs)
    /\ start \in 0..(nodes - 1)
    /\ NotBuilt

\* `while permanent.len() < n` holds and its body runs once more
VanillaLoopRuns ==
    /\ pc = "vanilla"
    /\ Len(permanent) < NumNodes(cs)
    /\ rounds' = rounds + 1

\* `while !heap.is_empty()` holds and its body runs once more
HeapLoopRuns ==
    /\ pc = "heap"
    /\ ~HeapIsEmpty(heap)
    /\ rounds' = rounds + 1

\* a Dijkstra call that was entered runs on: its loop takes the next
\* iteration while its condition holds, and the call returns once it fails
SpecDijkstraFair ==
    /\ InitDijkstraFair
    /\ [][NextDijkstra]_vars
    /\ WF_rounds(VanillaLoopRuns)
    /\ WF_vars(VanillaReturn)
    /\ WF_rounds(HeapLoopRuns)
    /\ WF_vars(HeapReturn)

----------------------------------------------------------------------------
(* Exact arithmetic for pagerank: a number is a fraction <<p, q>> in       *)
(* lowest terms with q > 0.                                                *)

Abs(x) == IF x < 0 THEN 0 - x ELSE x

RECURSIVE Gcd(_, _)
Gcd(a, b) == IF b = 0 THEN a ELSE Gcd(b, a % b)

\* the fraction p / q for q > 0
Frac(p, q) == LET g == Gcd(Abs(p), q) IN <<p \div g, q \div g>>

Zero == <<0, 1>>
One == <<1, 1>>

\* the numerator of a over the denominator q, a multiple of a's own
Scaled(a, q) == a[1] * (q \div a[2])

\* the least common denominator of a and b
Common(a, b) == (a[2] \div Gcd(a[2], b[2])) * b[2]

Plus(a, b) == Frac(Scaled(a, Common(a, b)) + Scaled(b, Common(a, b)), Common(a, b))
Minus(a, b) == Frac(Scaled(a, Common(a, b)) - Scaled(b, Common(a, b)), Common(a, b))
Times(a, b) == Frac(a[1] * b[1], a[2] * b[2])
\* a / n for an integer n > 0
Over(a, n) == Frac(a[1], a[2] * n)
\* p / q < r / s for q, s > 0, by comparing the integer parts and then the
\* inverted fractional parts, so that no product is formed
RECURSIVE LessThan(_, _, _, _)
LessThan(p, q, r, s) ==
    IF p \div q # r \div s THEN p \div q < r \div s
    ELSE IF r % s = 0 THEN FALSE
    ELSE IF p % q = 0 THEN TRUE
    ELSE LessThan(s, r % s, q, p % q)

Less(a, b) == LessThan(a[1], a[2], b[1], b[2])
LessEq(a, b) == ~Less(b, a)

\* the sum of the first k entries of a vector of fractions
RECURSIVE SumTo(_, _)
SumTo(v, k) == IF k = 0 THEN Zero ELSE Plus(SumTo(v, k - 1), v[k])

SumOf(v) == SumTo(v, Len(v))

----------------------------------------------------------------------------
(* algorithms/pagerank.rs                                                  *)

\* inv_out_deg that counts every node as having one outgoing arc
InvOutDegOne(c) == [k \in 1..NumNodes(c) |-> One]

\* inv_out_deg: 1 / out degree, 0 for a node without outgoing arcs
InvOutDeg(c) ==
    [k \in 1..NumNodes(c) |->
        LET out_deg == Len(Adjacent(c, k - 1))
        IN  IF out_deg > 0 THEN Frac(1, out_deg) ELSE Zero]

\* build_adj_list
BuildAdjList(c) == [k \in 1..NumNodes(c) |-> Adjacent(c, k - 1)]

\* normalize, past its assertion: every entry gets (1 - sum) / len added
Normalize(vector) ==
    LET corrective_value == Over(Minus(One, SumOf(vector)), Len(vector))
    IN  [k \in 1..Len(vector) |-> Plus(vector[k], corrective_value)]

\* for target_node in &adj_list[source_node] { new_ranks[target_node] += term }
RECURSIVE AddToTargets(_, _, _, _)
AddToTargets(acc, targets, k, term) ==
    IF k > Len(targets) THEN acc
    ELSE AddToTargets(Put(acc, targets[k], Plus(At(acc, targets[k]), term)),
                      targets, k + 1, term)

\* the loop of mult_matrix_vec over the first k source nodes
RECURSIVE MultLoop(_, _, _, _, _)
MultLoop(adj_list, inv_out_degs, b, current, k) ==
    IF k = 0 THEN Filled(Zero, Len(current))
    ELSE LET source_node == k - 1
             inv_out_deg == At(inv_out_degs, source_node)
             term == Times(Times(Minus(One, b), inv_out_deg), At(current, source_node))
         IN  AddToTargets(MultLoop(adj_list, inv_out_degs, b, current, k - 1),
                          At(adj_list, source_node), 1, term)

\* mult_matrix_vec
MultMatrixVec(adj_list, inv_out_degs, b, current) ==
    MultLoop(adj_list, inv_out_degs, b, current, Len(current))

\* the sum of the squared differences of the first k entries
RECURSIVE SquaredDistance(_, _, _)
SquaredDistance(old, new, k) ==
    IF k = 0 THEN Zero
    ELSE LET diff == Minus(old[k], new[k])
         IN  Plus(SquaredDistance(old, new, k - 1), Times(diff, diff))

\* is_converged: sum.sqrt() <= eps, for a tolerance e >= 0
IsConverged(old, new, e) ==
    LessEq(SquaredDistance(old, new, Len(old)), Times(e, e))

\* pagerank, up to the first test of the while loop
PageRank ==
    /\ pc = "built"
    /\ pc' = "pagerank"
    /\ ranks' = Filled(Zero, NumNodes(cs))
    /\ new_ranks' = Filled(Frac(1, NumNodes(cs)), NumNodes(cs))
    /\ rank_round' = 0
    /\ UNCHANGED <<inputVars, heapVars, beta, eps, product, rank_result, edges, cs,
                   searchVars, dijkstraVars>>

\* one round of the while loop; the assertion of normalize ends the call
PageRankStep ==
    /\ pc = "pagerank"
    /\ rank_round < MaxRounds
    /\ ~IsConverged(ranks, new_ranks, eps)
    /\ LET multiplied == MultMatrixVec(BuildAdjList(cs), InvOutDeg(cs), beta, new_ranks)
       IN  /\ ranks' = new_ranks
           /\ product' = Some(multiplied)
           /\ IF LessEq(SumOf(multiplied), One)
              THEN /\ new_ranks' = Normalize(multiplied)
                   /\ rank_round' = rank_round + 1
                   /\ pc' = "pagerank"
              ELSE /\ new_ranks' = multiplied
                   /\ rank_round' = rank_round
                   /\ pc' = "pagerank_panicked"
    /\ UNCHANGED <<inputVars, heapVars, beta, eps, rank_result, edges, cs,
                   searchVars, dijkstraVars>>

\* the while loop has ended: ranks is returned
PageRankReturn ==
    /\ pc = "pagerank"
    /\ IsConverged(ranks, new_ranks, eps)
    /\ rank_result' = Some(ranks)
    /\ pc' = "pagerank_done"
    /\ UNCHANGED <<inputVars, heapVars, beta, eps, ranks, new_ranks, product,
                   rank_round, edges, cs, searchVars, dijkstraVars>>

\* the teleport probabilities and tolerances handed to pagerank
Betas == {Frac(1, 5), Frac(1, 2)}
Tolerances == {Frac(1, 100), Frac(3, 4), One}

\* the network of test_pagerank
RankTestEdges ==
    << <<0, 1, 0, 0>>, <<0, 2, 0, 0>>, <<0, 3, 0, 0>>, <<1, 2, 0, 0>>,
       <<1, 3, 0, 0>>, <<2, 0, 0, 0>>, <<3, 0, 0, 0>>, <<3, 2, 0, 0>> >>

InitPageRank ==
    /\ \/ /\ nodes \in 1..MaxNodes
          /\ arcs \in ArcLists(ArcsOver(nodes, {0}, {0}), MaxRankArcs)
       \/ /\ nodes = 4
          /\ arcs = RankTestEdges
    /\ start = 0
    /\ beta \in Betas
    /\ eps \in Tolerances
    /\ pc = "start"
    /\ edges = arcs
    /\ cs = CompactStarNew
    /\ NoHeaps
    /\ NoRanks
    /\ Idle

NextPageRank ==
    \/ Build
    \/ PageRank
    \/ PageRankStep
    \/ PageRankReturn

SpecPageRank == InitPageRank /\ [][NextPageRank]_vars

----------------------------------------------------------------------------
(* Claims about the built network.                                         *)

Built == pc # "start"

\* every id of the caller's arc list lies in [0, nodes)
IdsInRange ==
    \A k \in 1..Len(arcs) : From(arcs[k]) \in 0..(nodes - 1) /\ To(arcs[k]) \in 0..(nodes - 1)

\* the ids that occur as a source / as a target of some arc
Sources == {From(arcs[k]) : k \in 1..Len(arcs)}
Targets == {To(arcs[k]) : k \in 1..Len(arcs)}

\* the caller's list is not sorted by source
Unsorted == \E k \in 1..(Len(arcs) - 1) : From(arcs[k]) > From(arcs[k + 1])

NonDecreasing(v) == \A k \in 1..(Len(v) - 1) : v[k] <= v[k + 1]

\* C8: a network built from n >= 1 nodes and arcs with ids in [0,n) reports
\* num_nodes() = n, num_arcs() = len(arcs) and invalid_id() = n.
C8_Counts ==
    (Built /\ IdsInRange) =>
        /\ NumNodes(cs) = nodes
        /\ NumArcs(cs) = Len(arcs)
        /\ InvalidId(cs) = nodes

\* a built network with an id that is in no arc and an id that is only a target
C8_Witness ==
    /\ Built /\ IdsInRange
    /\ Len(arcs) >= 1
    /\ \E i \in 0..(nodes - 1) : i \notin Sources /\ i \notin Targets
    /\ \E j \in 0..(nodes - 1) : j \notin Sources /\ j \in Targets
    /\ NumNodes(cs) = nodes

\* the targets of the arcs leaving i, in the order of the caller's list
TargetsOf(as, i) ==
    LET out == SelectSeq(as, LAMBDA e : From(e) = i)
    IN  [k \in 1..Len(out) |-> To(out[k])]

\* C9: adjacent(i) is the sequence of targets of the arcs with from = i,
\* duplicates kept, in the relative order of the caller's unsorted list.
C9_AdjacentInListOrder ==
    (Built /\ IdsInRange) =>
        \A i \in 0..(nodes - 1) : Adjacent(cs, i) = TargetsOf(arcs, i)

\* an unsorted list in which some node's targets are listed in decreasing
\* order and some node has a parallel arc
C9_Witness ==
    /\ Built /\ IdsInRange /\ Unsorted
    /\ \E i \in 0..(nodes - 1) :
          /\ Len(Adjacent(cs, i)) >= 2
          /\ Adjacent(cs, i)[1] > Adjacent(cs, i)[2]
          /\ Adjacent(cs, i) = TargetsOf(arcs, i)

\* position k of the flattened arrays, read as one arc
Row(c, k) == <<At(c.tail, k), At(c.head, k), At(c.costs, k), At(c.capacities, k)>>

CountIn(v, x) == Cardinality({k \in 1..Len(v) : v[k] = x})

\* C10: point has n+1 entries from 0 to m, point and tail are non-decreasing,
\* the range point[i]..point[i+1] holds exactly the positions with tail = i,
\* and every position holds the four fields of one input arc.
C10_ForwardLayout ==
    (Built /\ IdsInRange) =>
        LET m == Len(arcs)
            rows == [k \in 1..Len(cs.tail) |-> Row(cs, k - 1)]
        IN  /\ Len(cs.point) = nodes + 1
            /\ At(cs.point, 0) = 0
            /\ At(cs.point, nodes) = m
            /\ NonDecreasing(cs.point)
            /\ NonDecreasing(cs.tail)
            /\ Len(cs.tail) = m /\ Len(cs.head) = m
            /\ Len(cs.costs) = m /\ Len(cs.capacities) = m
            /\ \A i \in 0..(nodes - 1) : \A k \in 0..(m - 1) :
                  (At(cs.point, i) <= k /\ k < At(cs.point, i + 1)) <=> (At(cs.tail, k) = i)
            /\ \A k \in 1..m : CountIn(rows, arcs[k]) = CountIn(arcs, arcs[k])

\* an unsorted list of three arcs that differ in cost and capacity, with a
\* node in the middle that has no outgoing arc
C10_Witness ==
    /\ Built /\ IdsInRange /\ Unsorted
    /\ nodes = 3 /\ Len(arcs) = 3
    /\ At(cs.point, 1) = At(cs.point, 2)
    /\ At(cs.point, 0) < At(cs.point, 1) /\ At(cs.point, 2) < At(cs.point, 3)
    /\ \E k, l \in 1..3 : CostOf(arcs[k]) # CostOf(arcs[l]) /\ CapOf(arcs[k]) # CapOf(arcs[l])
    /\ \A k \in 0..2 : \E l \in 1..3 : Row(cs, k) = arcs[l]

----------------------------------------------------------------------------
(* Claims about the traversal.                                             *)

\* (i, j) is an arc of the caller's list
IsArc(i, j) == \E k \in 1..Len(arcs) : From(arcs[k]) = i /\ To(arcs[k]) = j

\* the nodes that a directed path of the caller's arcs reaches from the set S
RECURSIVE ReachedFrom(_)
ReachedFrom(S) ==
    LET more == S \cup {To(arcs[k]) : k \in {l \in 1..Len(arcs) : From(arcs[l]) \in S}}
    IN  IF more = S THEN S ELSE ReachedFrom(more)

Reachable == ReachedFrom({start})

NodeIds == 0..(nodes - 1)

\* the fields of a returned (pred, order) pair
PredOf(result) == result[1]
OrderOf(result) == result[2]

\* what the claim says of a returned predecessor list
PredecessorsSound(result) ==
    \A v \in NodeIds :
        /\ (At(PredOf(result), v) # nodes) <=> (v # start /\ v \in Reachable)
        /\ (At(PredOf(result), v) # nodes) =>
              LET p == At(PredOf(result), v)
              IN  /\ p \in NodeIds
                  /\ IsArc(p, v)
                  /\ (p = start \/ At(PredOf(result), p) # nodes)

\* C5: for both disciplines, predecessor[v] is valid exactly for the nodes
\* v # start reachable from start; it is then the source of an arc into v and
\* itself reached; start and the unreachable nodes keep invalid_id().
C5_PredecessorsExactlyReachable ==
    /\ (bfs_result # None => PredecessorsSound(bfs_result))
    /\ (dfs_result # None => PredecessorsSound(dfs_result))

\* both searches have returned; a node other than start was reached and
\* another node was not
C5_Witness ==
    /\ bfs_result # None /\ dfs_result # None
    /\ \E v \in NodeIds : v \notin Reachable /\ At(PredOf(bfs_result), v) = nodes
    /\ \E v \in Reachable \ {start} :
          /\ At(PredOf(dfs_result), v) # nodes
          /\ At(PredOf(bfs_result), v) # nodes
    /\ PredecessorsSound(bfs_result) /\ PredecessorsSound(dfs_result)

\* what the claim says of a returned visit order
OrderAsClaimed(result) ==
    LET r == Cardinality(Reachable)
    IN  /\ At(OrderOf(result), start) = 0
        /\ \A v \in NodeIds \ Reachable : At(OrderOf(result), v) = 0
        /\ {At(OrderOf(result), v) : v \in Reachable} = 0..(r - 1)

\* C6: for every start, visitOrder[start] = 0, the k-th discovered node gets
\* k, unreached nodes keep 0, so the reached nodes carry the distinct values
\* 0..r-1; and breadth-first search from 0 on the doc-comment network
\* returns pred [5,0,0,1,3] and order [0,1,2,3,4].
C6_VisitOrder ==
    /\ (bfs_result # None => OrderAsClaimed(bfs_result))
    /\ (dfs_result # None => OrderAsClaimed(dfs_result))
    /\ (bfs_result # None /\ arcs = DocEdges /\ nodes = 5 /\ start = 0) =>
          bfs_result = << <<5, 0, 0, 1, 3>>, <<0, 1, 2, 3, 4>> >>

\* the part of C6 that the code keeps: the instance of the doc comment
C6_DocExample ==
    (bfs_result # None /\ arcs = DocEdges /\ nodes = 5 /\ start = 0) =>
        bfs_result = << <<5, 0, 0, 1, 3>>, <<0, 1, 2, 3, 4>> >>

\* the nodes a returned predecessor list calls reached
ReachedBy(result) == {start} \cup {v \in NodeIds : At(PredOf(result), v) # nodes}

\* C7: breadth-first and depth-first search from the same start reach the
\* same set of nodes, also when their predecessor and order lists differ.
C7_SameReachedSet ==
    (bfs_result # None /\ dfs_result # None) =>
        ReachedBy(bfs_result) = ReachedBy(dfs_result)

\* both searches have returned with different predecessor and order lists
C7_Witness ==
    /\ bfs_result # None /\ dfs_result # None
    /\ PredOf(bfs_result) # PredOf(dfs_result)
    /\ OrderOf(bfs_result) # OrderOf(dfs_result)
    /\ Cardinality(ReachedBy(bfs_result)) >= 3
    /\ ReachedBy(bfs_result) = ReachedBy(dfs_result)

----------------------------------------------------------------------------
(* Claims about the shortest paths.                                        *)

\* the fields of a returned (pred, dist) pair
DistOf(result) == result[2]

\* no two arcs of the caller's list share source and target
NoParallelArcs ==
    \A k, l \in 1..Len(arcs) :
        (From(arcs[k]) = From(arcs[l]) /\ To(arcs[k]) = To(arcs[l])) => k = l

\* the costs of the directed walks of at most k arcs from start to v
RECURSIVE WalkCosts(_, _)
WalkCosts(v, k) ==
    (IF v = start THEN {0} ELSE {}) \cup
    (IF k = 0 THEN {}
     ELSE UNION {{c + CostOf(arcs[a]) : c \in WalkCosts(From(arcs[a]), k - 1)} :
                    a \in {b \in 1..Len(arcs) : To(arcs[b]) = v}})

\* the minimum total cost of a directed path from start to a reachable v
MinimumCost(v) ==
    LET costs == WalkCosts(v, nodes - 1)
    IN  CHOOSE c \in costs : \A other \in costs : c <= other

\* the sum of all arc costs of the caller's list
RECURSIVE CostSum(_)
CostSum(k) == IF k = 0 THEN 0 ELSE CostSum(k - 1) + CostOf(arcs[k])

\* what the claim says of a returned distance list
DistancesExact(result) ==
    /\ At(DistOf(result), start) = 0
    /\ \A v \in Reachable : At(DistOf(result), v) = MinimumCost(v)
    /\ \A v \in NodeIds \ Reachable : At(DistOf(result), v) = CostSum(Len(arcs))

TestExpected == << <<6, 0, 0, 2, 2, 4>>, <<0, 6, 4, 5, 6, 9>> >>

\* C1: on a network without parallel arcs both variants return dist[source]
\* = 0, the minimum path cost for every reachable node and the sum of all arc
\* costs for every unreachable one; on the network of test_dijkstra with
\* source 0 they return dist [0,6,4,5,6,9] and pred [6,0,0,2,2,4].
C1_ShortestDistances ==
    /\ (vanilla_result # None /\ NoParallelArcs) => DistancesExact(vanilla_result)
    /\ (heap_result # None /\ NoParallelArcs) => DistancesExact(heap_result)
    /\ (vanilla_result # None /\ arcs = TestEdges /\ nodes = 6 /\ start = 0) =>
          vanilla_result = TestExpected
    /\ (heap_result # None /\ arcs = TestEdges /\ nodes = 6 /\ start = 0) =>
          heap_result = TestExpected

\* both variants have returned on a network without parallel arcs where a
\* node is cheaper to reach over two arcs than over its direct arc, and the
\* distances are the minimum costs
C1_Witness ==
    /\ vanilla_result # None /\ heap_result # None /\ NoParallelArcs
    /\ \E k \in 1..Len(arcs) :
          /\ From(arcs[k]) = start
          /\ To(arcs[k]) # start
          /\ At(DistOf(heap_result), To(arcs[k])) < CostOf(arcs[k])
          /\ At(DistOf(heap_result), To(arcs[k])) > 0
    /\ DistancesExact(vanilla_result) /\ DistancesExact(heap_result)

\* C2: the array variant and the heap variant return the same dist list.
C2_SameDist ==
    (vanilla_result # None /\ heap_result # None) =>
        DistOf(vanilla_result) = DistOf(heap_result)

\* both variants have returned on a network with parallel arcs of different
\* cost and a node at a distance strictly between 0 and the cost sum, and
\* the dist lists agree
C2_Witness ==
    /\ vanilla_result # None /\ heap_result # None
    /\ \E k, l \in 1..Len(arcs) :
          /\ From(arcs[k]) = From(arcs[l]) /\ To(arcs[k]) = To(arcs[l])
          /\ CostOf(arcs[k]) # CostOf(arcs[l])
    /\ \E v \in NodeIds \ {start} :
          /\ At(DistOf(heap_result), v) > 0
          /\ At(DistOf(heap_result), v) < CostSum(Len(arcs))
    /\ DistOf(vanilla_result) = DistOf(heap_result)

\* C3: the array variant and the heap variant return the same pred list,
\* also when nodes tie in tentative distance or a node has several
\* equal-cost shortest paths.
C3_SamePred ==
    (vanilla_result # None /\ heap_result # None) =>
        PredOf(vanilla_result) = PredOf(heap_result)

\* what the claim says of a returned (pred, dist) pair
PredecessorsTight(result) ==
    \A v \in NodeIds :
        /\ (v # start /\ v \in Reachable) =>
              LET p == At(PredOf(result), v)
              IN  /\ p # nodes
                  /\ IsArc(p, v)
                  /\ At(DistOf(result), v) = At(DistOf(result), p) + Unwrap(Cost(cs, p, v))
        /\ (At(PredOf(result), v) = nodes) => (v = start \/ v \notin Reachable)

\* C4: the cost sum is always sufficient as the initial distance: after
\* either variant every reachable node v # source has a valid pred[v] with
\* (pred[v], v) an arc and dist[v] = dist[pred[v]] + cost(pred[v], v); only
\* the source and the unreachable nodes keep the sentinel predecessor.
C4_SentinelSufficient ==
    /\ (vanilla_result # None => PredecessorsTight(vanilla_result))
    /\ (heap_result # None => PredecessorsTight(heap_result))

----------------------------------------------------------------------------
(* Claims about the reverse index and the lookups.                         *)

\* the entries of v at the Rust indices lo .. hi-1
Slice(v, lo, hi) == [k \in 1..(hi - lo) |-> At(v, lo + k - 1)]

StrictlyIncreasing(v) == \A k \in 1..(Len(v) - 1) : v[k] < v[k + 1]

\* C11: rpoint has n+1 non-decreasing entries from 0 to m, trace is a
\* permutation of the arc positions 0..m-1, and the trace entries of node i
\* (rpoint[i] .. rpoint[i+1]-1) are exactly the positions k with head[k] = i,
\* in increasing order.
C11_ReverseLayout ==
    (Built /\ IdsInRange) =>
        LET m == Len(arcs)
        IN  /\ Len(cs.rpoint) = nodes + 1
            /\ At(cs.rpoint, 0) = 0
            /\ At(cs.rpoint, nodes) = m
            /\ NonDecreasing(cs.rpoint)
            /\ Len(cs.trace) = m
            /\ {cs.trace[k] : k \in 1..Len(cs.trace)} = 0..(m - 1)
            /\ \A i \in 0..(nodes - 1) :
                  LET part == Slice(cs.trace, At(cs.rpoint, i), At(cs.rpoint, i + 1))
                  IN  /\ {part[k] : k \in 1..Len(part)} =
                            {k \in 0..(m - 1) : At(cs.head, k) = i}
                      /\ StrictlyIncreasing(part)

\* a built network in which trace is not the identity: a node has two
\* incoming arcs at positions that are not neighbours, another has none
C11_Witness ==
    /\ Built /\ IdsInRange
    /\ nodes = 3 /\ Len(arcs) = 3
    /\ \E i \in 0..(nodes - 1) :
          Slice(cs.trace, At(cs.rpoint, i), At(cs.rpoint, i + 1)) = <<0, 2>>
    /\ \E i \in 0..(nodes - 1) : At(cs.rpoint, i) = At(cs.rpoint, i + 1)
    /\ cs.trace # <<0, 1, 2>>

\* C12: a build whose arc list holds an id >= n ends in a validation
\* failure: it never returns a network (whose num_nodes() would differ from
\* n, whose head would hold an id >= n or whose trace would be short).
C12_ForeignIdsRejected ==
    ~IdsInRange =>
        /\ pc \in {"start", "rejected"}
        /\ (pc # "start" =>
               /\ NumNodes(cs) = nodes
               /\ \A k \in 1..Len(cs.head) : cs.head[k] < nodes
               /\ Len(cs.trace) >= NumArcs(cs))

\* the position in the caller's list of the first arc from -> to
FirstArc(from, to) ==
    LET hits == {k \in 1..Len(arcs) : From(arcs[k]) = from /\ To(arcs[k]) = to}
    IN  CHOOSE k \in hits : \A h \in hits : k <= h

\* C13: for every pair with at least one arc, cost and capacity return the
\* values of the arc from -> to that came first in the caller's list; both
\* come from that one arc, never from a later parallel arc.
C13_FirstParallelArc ==
    (Built /\ IdsInRange) =>
        \A from, to \in NodeIds :
            IsArc(from, to) =>
                /\ Cost(cs, from, to) = Some(CostOf(arcs[FirstArc(from, to)]))
                /\ Capacity(cs, from, to) = Some(CapOf(arcs[FirstArc(from, to)]))

\* a built network with two parallel arcs that differ in cost and capacity,
\* listed with another arc between them; the lookups return the first one's
C13_Witness ==
    /\ Built /\ IdsInRange
    /\ \E k, l \in 1..Len(arcs) :
          /\ k + 1 < l
          /\ From(arcs[k]) = From(arcs[l]) /\ To(arcs[k]) = To(arcs[l])
          /\ CostOf(arcs[k]) # CostOf(arcs[l]) /\ CapOf(arcs[k]) # CapOf(arcs[l])
          /\ FirstArc(From(arcs[k]), To(arcs[k])) = k
          /\ Cost(cs, From(arcs[k]), To(arcs[k])) = Some(CostOf(arcs[k]))
          /\ Capacity(cs, From(arcs[k]), To(arcs[k])) = Some(CapOf(arcs[k]))

\* C14: cost and capacity return None whenever no arc from -> to exists,
\* also for ids outside [0,n), and adjacent(id) is empty for every id >= n.
C14_LookupMiss ==
    (Built /\ IdsInRange) =>
        /\ \A from, to \in 0..(nodes + 2) :
              ~IsArc(from, to) =>
                  /\ Cost(cs, from, to) = None
                  /\ Capacity(cs, from, to) = None
        /\ \A id \in nodes..(nodes + 2) : Adjacent(cs, id) = <<>>

\* a built network in which a node has outgoing arcs but none to some other
\* node, and the lookup of that pair returns None
C14_Witness ==
    /\ Built /\ IdsInRange
    /\ \E from, to \in NodeIds :
          /\ ~IsArc(from, to)
          /\ Len(Adjacent(cs, from)) >= 2
          /\ Cost(cs, from, to) = None /\ Capacity(cs, from, to) = None
    /\ Cost(cs, nodes, 0) = None /\ Cost(cs, 0, nodes) = None

----------------------------------------------------------------------------
(* Claims about the traversal loop.                                        *)

Searching == pc = "search"

MarkedCount == Cardinality({k \in 1..Len(marks) : marks[k]})

\* what holds of the container in every state of a search
ContainerBounded ==
    Searching =>
        /\ \A v \in NodeIds : At(push_count, v) <= 1
        /\ \A k \in 1..Len(to_process) : At(marks, to_process[k])
        /\ Len(to_process) <= nodes

\* one iteration marks one new node and pushes it, or pops one node
IterationMarksOrPops ==
    (Searching /\ pc' = "search" /\ iterations' # iterations) =>
        /\ iterations' = iterations + 1
        /\ \/ /\ \E j \in NodeIds :
                    /\ ~At(marks, j)
                    /\ marks' = Put(marks, j, TRUE)
                    /\ At(push_count', j) = At(push_count, j) + 1
              /\ Len(to_process') = Len(to_process) + 1
           \/ /\ marks' = marks /\ push_count' = push_count
              /\ Len(to_process') = Len(to_process) - 1

\* a search has returned after 2r - 1 iterations, its container empty
ReturnedAfter ==
    (pc \in {"bfs_done", "dfs_done"}) =>
        /\ to_process = <<>>
        /\ iterations = 2 * Cardinality(Reachable) - 1
        /\ MarkedCount = Cardinality(Reachable)

\* C20: for both disciplines the loop terminates with an empty container;
\* in every state each node has been pushed at most once, every node in the
\* container is marked, the container holds at most n nodes, each iteration
\* marks one new node or pops one node, and the loop has run exactly 2r - 1
\* times when it ends, r being the number of reached nodes.
C20_LoopTerminates ==
    /\ [](ContainerBounded /\ ReturnedAfter)
    /\ [][IterationMarksOrPops]_vars
    /\ (Searching ~> (pc \in {"bfs_done", "dfs_done"} /\ to_process = <<>>))

\* the depth-first search has returned, its container empty, from a run of
\* 2r - 1 iterations that reached r >= 3 nodes, one of them over a second hop
C20_Witness ==
    /\ pc = "dfs_done"
    /\ Cardinality(Reachable) >= 3
    /\ iterations = 2 * Cardinality(Reachable) - 1
    /\ to_process = <<>>
    /\ \E v \in NodeIds : v # start /\ At(PredOf(dfs_result), v) \notin {start, nodes}

----------------------------------------------------------------------------
(* Claims about the heaps.                                                 *)

HeapTest == pc = "heap_test"

\* the number of entries (node, cost) that the BinaryHeap h holds
Held(h, node, cost) ==
    Cardinality({k \in 1..Len(h) : h[k].key = node /\ h[k].cost = 0 - cost})

\* the costs of the entries that the BinaryHeap h holds
CostsHeld(h) == {0 - h[k].cost : k \in 1..Len(h)}

\* the least of a non-empty set of costs
Least(S) == CHOOSE x \in S : \A y \in S : x <= y

\* inserts minus the delete_min calls made on a non-empty heap, by replaying
\* the first k calls of the log
RECURSIVE SizeAfter(_, _)
SizeAfter(log, k) ==
    IF k = 0 THEN 0
    ELSE LET before == SizeAfter(log, k - 1)
         IN  IF log[k] # <<>> THEN before + 1
             ELSE IF before > 0 THEN before - 1 ELSE 0

\* size, is_empty and find_min of the BinaryHeap after the calls made so far
BinaryObservers ==
    HeapTest =>
        /\ HeapSize(binary_heap) = SizeAfter(heap_log, Len(heap_log))
        /\ HeapIsEmpty(binary_heap) <=> (HeapSize(binary_heap) = 0)
        /\ (HeapFindMin(binary_heap) = None) <=> HeapIsEmpty(binary_heap)
        /\ ~HeapIsEmpty(binary_heap) =>
              \E cost \in CostsHeld(binary_heap) :
                  /\ cost = Least(CostsHeld(binary_heap))
                  /\ Held(binary_heap, Unwrap(HeapFindMin(binary_heap)), cost) > 0

\* what one call does to the entries held: insert adds its entry, delete_min
\* takes one entry of the least cost away, or nothing from the empty heap
BinaryCallEffect ==
    (HeapTest /\ heap_log' # heap_log) =>
        LET call == heap_log'[Len(heap_log')]
            Pairs == (0..MaxHeapNode) \X (0..(MaxHeapCost + 1))
            Change(pr) == Held(binary_heap', pr[1], pr[2]) - Held(binary_heap, pr[1], pr[2])
        IN  IF call # <<>>
            THEN \A pr \in Pairs : Change(pr) = IF pr = call THEN 1 ELSE 0
            ELSE IF binary_heap = <<>> THEN binary_heap' = <<>>
            ELSE \E gone \in Pairs :
                    /\ gone[2] = Least(CostsHeld(binary_heap))
                    /\ \A pr \in Pairs : Change(pr) = IF pr = gone THEN 0 - 1 ELSE 0

\* C15: after any interleaving of insert and delete_min on a BinaryHeap,
\* size() is the inserts minus the delete_min calls on a non-empty heap,
\* is_empty() holds iff size() = 0, find_min() is None iff the heap is empty
\* and else names an entry of the least cost held, duplicate entries of a
\* node being kept; delete_min() removes exactly one entry of the least cost
\* and does nothing on the empty heap.
C15_BinaryHeapContract ==
    /\ []BinaryObservers
    /\ [][BinaryCallEffect]_vars

\* a node was inserted at a higher and then at a lower cost, a costlier
\* entry of another node lies between them, and delete_min has surfaced the
\* stale entry of the node
C15_Witness ==
    /\ HeapTest
    /\ Len(heap_log) = 4
    /\ heap_log[4] = <<>>
    /\ \E node \in 0..MaxHeapNode, other \in 0..MaxHeapNode, cost \in 1..MaxHeapCost :
          /\ other # node
          /\ heap_log[1] = <<node, cost>>
          /\ heap_log[2] = <<other, cost + 1>>
          /\ heap_log[3] = <<node, cost - 1>>
          /\ HeapFindMin(binary_heap) = Some(node)
          /\ Held(binary_heap, node, cost) = 1
          /\ Held(binary_heap, node, cost - 1) = 0
    /\ HeapSize(binary_heap) = 2

\* the costs of the inserts made so far are pairwise distinct
DistinctCosts ==
    \A k, l \in 1..Len(heap_log) :
        (k # l /\ heap_log[k] # <<>> /\ heap_log[l] # <<>>) => heap_log[k][2] # heap_log[l][2]

\* C16: after every call of a sequence of inserts with pairwise distinct
\* costs and delete_min calls made on both heaps, the FibonacciHeap has not
\* panicked and its size(), is_empty() and find_min() equal the BinaryHeap's.
C16_SameContract ==
    (HeapTest /\ DistinctCosts) =>
        /\ ~fibonacci_heap.panicked
        /\ FibSize(fibonacci_heap) = HeapSize(binary_heap)
        /\ FibIsEmpty(fibonacci_heap) <=> HeapIsEmpty(binary_heap)
        /\ FibFindMin(fibonacci_heap) = HeapFindMin(binary_heap)

----------------------------------------------------------------------------
(* Claims about pagerank.                                                  *)

\* a call of pagerank is under way or has returned
Ranking == pc \in {"pagerank", "pagerank_done"}

\* C17: in exact arithmetic the initial rank vector and the vector that
\* every round produces (mult_matrix_vec, then normalize) sum to exactly 1,
\* normalize leaves the differences between entries as they were, and the
\* vector that pagerank returns sums to 1.
C17_RanksSumToOne ==
    /\ Ranking => SumOf(new_ranks) = One
    /\ (Ranking /\ product # None) =>
          \A i, j \in 1..Len(new_ranks) :
              Minus(new_ranks[i], new_ranks[j]) =
                  Minus(Unwrap(product)[i], Unwrap(product)[j])
    /\ rank_result # None => SumOf(Unwrap(rank_result)) = One

\* the part of C17 about the vectors of the loop, without the returned one
RoundsSumToOne ==
    /\ Ranking => SumOf(new_ranks) = One
    /\ (Ranking /\ rank_round > 0) => SumOf(ranks) = One

\* the sum that normalize has checked last
Mass == SumOf(Unwrap(product))

\* C18: pagerank aborts, returning nothing, exactly when the sum checked in
\* normalize exceeds 1; in exact arithmetic that sum is at most 1 - beta in
\* every round, on networks with dangling nodes and parallel arcs too, so
\* the abort is never reached.
C18_MassBounded ==
    /\ (product # None /\ Less(One, Mass)) <=> (pc = "pagerank_panicked")
    /\ pc = "pagerank_panicked" => rank_result = None
    /\ product # None => LessEq(Mass, Minus(One, beta))
    /\ pc # "pagerank_panicked"

\* in the second round or later, on a network with parallel arcs and a
\* dangling node, normalize has checked a sum strictly between 0 and 1 - beta
C18_Witness ==
    /\ pc = "pagerank"
    /\ rank_round >= 2
    /\ \E k, l \in 1..Len(arcs) :
          k # l /\ From(arcs[k]) = From(arcs[l]) /\ To(arcs[k]) = To(arcs[l])
    /\ \E v \in NodeIds : Adjacent(cs, v) = <<>>
    /\ Less(Zero, Mass)
    /\ Less(Mass, Minus(One, beta))

\* the sum of the absolute differences of the first k entries
RECURSIVE AbsoluteDistance(_, _, _)
AbsoluteDistance(old, new, k) ==
    IF k = 0 THEN Zero
    ELSE LET diff == Minus(old[k], new[k])
         IN  Plus(AbsoluteDistance(old, new, k - 1),
                  IF Less(diff, Zero) THEN Minus(Zero, diff) ELSE diff)

\* the L1 distance of ranks and new_ranks
L1Distance == AbsoluteDistance(ranks, new_ranks, Len(ranks))

\* C19: the loop of pagerank ends exactly when ranks and new_ranks differ by
\* less than eps in the L1 norm: it has returned only at an L1 distance below
\* eps, and its test lets it run on exactly while that distance is >= eps.
C19_StopsOnL1 ==
    Ranking => (IsConverged(ranks, new_ranks, eps) <=> Less(L1Distance, eps))

----------------------------------------------------------------------------
(* Claims about the runs of the two Dijkstra variants.                     *)

\* the caller's list holds two arcs i -> j of different cost
ParallelArcsDiffer ==
    \E k, l \in 1..Len(arcs) :
        /\ From(arcs[k]) = From(arcs[l]) /\ To(arcs[k]) = To(arcs[l])
        /\ CostOf(arcs[k]) # CostOf(arcs[l])

\* every reachable node's distance is the minimum cost of a path to it
ReachableExact(result) ==
    \A v \in Reachable : At(DistOf(result), v) = MinimumCost(v)

\* C25: on a network that contains parallel arcs i -> j of different cost,
\* both variants still return the minimum total path cost for every
\* reachable node: each arc is relaxed with its own cost, so the cheapest of
\* the parallel arcs counts wherever it stands in the caller's list.
C25_CheapestParallelArc ==
    /\ (vanilla_result # None /\ ParallelArcsDiffer) => ReachableExact(vanilla_result)
    /\ (heap_result # None /\ ParallelArcsDiffer) => ReachableExact(heap_result)

----------------------------------------------------------------------------
(* Claims about the shape of the two traversals.                           *)

\* the nodes that a directed path of at most k arcs reaches from start
RECURSIVE WithinHops(_)
WithinHops(k) ==
    IF k = 0 THEN {start}
    ELSE LET S == WithinHops(k - 1)
         IN  S \cup {To(arcs[a]) : a \in {b \in 1..Len(arcs) : From(arcs[b]) \in S}}

\* the least number of arcs of a directed path from start to a reachable v
Hops(v) == CHOOSE k \in 0..nodes : v \in WithinHops(k) /\ \A j \in 0..(k - 1) : v \notin WithinHops(j)

\* the number of predecessor links from v back to start, following at most
\* `left` of them; nodes + 1 when start is not met
RECURSIVE PredLinks(_, _, _)
PredLinks(pred_list, v, left) ==
    IF v = start THEN 0
    ELSE IF left = 0 \/ v \notin NodeIds THEN nodes + 1
    ELSE LET rest == PredLinks(pred_list, At(pred_list, v), left - 1)
         IN  IF rest > nodes THEN nodes + 1 ELSE rest + 1

\* C23: after breadth_first_search the predecessor links from every reached
\* node v back to start are as few as the arcs of a shortest directed path
\* start -> v, and of two discovered nodes u, v # start the one with the
\* smaller visit order has no more hops than the other.
C23_FewestHops ==
    bfs_result # None =>
        /\ \A v \in ReachedBy(bfs_result) :
              PredLinks(PredOf(bfs_result), v, nodes) = Hops(v)
        /\ \A u, v \in ReachedBy(bfs_result) \ {start} :
              At(OrderOf(bfs_result), u) < At(OrderOf(bfs_result), v) => Hops(u) <= Hops(v)

\* both searches have returned; the breadth-first search discovered a node
\* one hop from start before a node two hops away, which it reached over two
\* links, and the depth-first search reached some node over more links
C23_Witness ==
    /\ bfs_result # None /\ dfs_result # None
    /\ \E u, v \in ReachedBy(bfs_result) \ {start} :
          /\ Hops(u) = 1 /\ Hops(v) = 2
          /\ At(OrderOf(bfs_result), u) < At(OrderOf(bfs_result), v)
          /\ PredLinks(PredOf(bfs_result), v, nodes) = 2
    /\ \E v \in ReachedBy(bfs_result) :
          PredLinks(PredOf(dfs_result), v, nodes) > PredLinks(PredOf(bfs_result), v, nodes)

\* the loop of depth_first_search is running
DepthFirstLoop == pc = "search" /\ discipline = "stack"

\* C24: in every state of the loop of depth_first_search the stack, read
\* from bottom to top, is a directed path that begins at start: its bottom
\* element is start and every other element lies directly above its
\* predecessor, which has an arc to it.
C24_StackIsPath ==
    (DepthFirstLoop /\ to_process # <<>>) =>
        /\ to_process[1] = start
        /\ \A k \in 2..Len(to_process) :
              /\ At(pred_slice, to_process[k]) = to_process[k - 1]
              /\ IsArc(to_process[k - 1], to_process[k])

\* the stack holds a path of three nodes after an earlier branch was popped
C24_Witness ==
    /\ DepthFirstLoop
    /\ Len(to_process) = 3
    /\ to_process[1] = start
    /\ At(pred_slice, to_process[3]) = to_process[2]
    /\ \E v \in NodeIds : At(marks, v) /\ \A k \in 1..Len(to_process) : to_process[k] # v


\* no node occurs twice in the sequence v
NoRepeats(v) == \A k, l \in 1..Len(v) : v[k] = v[l] => k = l

\* the loop of heap_dijkstra is running
HeapLoop == pc = "heap"

\* what holds in every state of the loop of heap_dijkstra and at its return
ExpandedOnce ==
    (pc \in {"heap", "heap_done"}) =>
        /\ NoRepeats(finalized)
        /\ \A v \in NodeIds : At(marked, v) <=> \E k \in 1..Len(finalized) : finalized[k] = v
        /\ inserts <= 1 + NumArcs(cs)

\* one iteration of the loop of heap_dijkstra: a stale entry is dropped and
\* nothing else changes; else the node is marked and exactly the nodes whose
\* distance strictly improved are inserted, at their new distance
ExtractionEffect ==
    (HeapLoop /\ rounds' # rounds) =>
        LET next_node == Unwrap(HeapFindMin(heap))
            Improved == {j \in NodeIds : At(d', j) < At(d, j)}
        IN  /\ Len(heap') = Len(heap) - 1 + (inserts' - inserts)
            /\ IF At(marked, next_node)
               THEN /\ d' = d /\ pred' = pred /\ marked' = marked
                    /\ inserts' = inserts
                    /\ finalized' = finalized
               ELSE /\ finalized' = Append(finalized, next_node)
                    /\ inserts' - inserts = Cardinality(Improved)
                    /\ \A j \in NodeIds \ Improved :
                          At(d', j) = At(d, j) /\ At(pred', j) = At(pred, j)
                    /\ \A j \in Improved :
                          /\ Held(heap', j, At(d', j)) > Held(heap, j, At(d', j))
                          /\ At(pred', j) = next_node

\* C21: in heap_dijkstra each node is expanded at most once; the extraction
\* of an entry whose node is already marked changes neither dist, pred nor
\* marked and inserts nothing; an entry is inserted only on a strict
\* improvement of its node's distance; at most 1 + num_arcs() entries are
\* inserted, so the heap empties and the call returns.
C21_StaleEntriesSuppressed ==
    /\ []ExpandedOnce
    /\ [][ExtractionEffect]_vars
    /\ (HeapLoop ~> (pc = "heap_done" /\ HeapIsEmpty(heap)))

\* heap_dijkstra has returned after extracting a stale entry: more entries
\* were inserted and extracted than nodes were marked, on a network where
\* 1 + num_arcs() entries were inserted
C21_Witness ==
    /\ pc = "heap_done"
    /\ rounds = inserts
    /\ rounds > Len(finalized)
    /\ inserts = 1 + NumArcs(cs)

\* the distances along the sequence v of nodes never decrease
InDistanceOrder(v, dist) ==
    \A k, l \in 1..Len(v) : k < l => At(dist, v[k]) <= At(dist, v[l])

\* in every state of a Dijkstra call and at its return: the finalized nodes
\* stand in the order of their distances, vanilla_dijkstra's two lists
\* partition the nodes, and its loop has run n times when it returns
FinalizedInOrder ==
    /\ (pc \in {"vanilla", "vanilla_done"}) =>
          /\ InDistanceOrder(permanent, d)
          /\ NoRepeats(temporary \o permanent)
          /\ {(temporary \o permanent)[k] : k \in 1..(Len(temporary) + Len(permanent))} = NodeIds
          /\ rounds = Len(permanent)
    /\ pc = "vanilla_done" =>
          /\ rounds = nodes
          /\ InDistanceOrder(permanent, DistOf(vanilla_result))
    /\ (pc \in {"heap", "heap_done"}) => InDistanceOrder(finalized, d)
    /\ pc = "heap_done" => InDistanceOrder(finalized, DistOf(heap_result))

\* a step of a running Dijkstra call leaves dist and pred of every node
\* that was finalized before it as they are
FinalizedFrozen ==
    /\ (pc = "vanilla" /\ pc' = "vanilla") =>
          \A k \in 1..Len(permanent) :
              /\ At(d', permanent[k]) = At(d, permanent[k])
              /\ At(pred', permanent[k]) = At(pred, permanent[k])
    /\ (pc = "heap" /\ pc' = "heap") =>
          \A v \in NodeIds :
              At(marked, v) => At(d', v) = At(d, v) /\ At(pred', v) = At(pred, v)

\* C22: in both Dijkstra variants a finalized node's dist and pred never
\* change in a later step and nodes are finalized in non-decreasing order of
\* their final dist; in vanilla_dijkstra temporary and permanent always
\* partition the node set and the loop runs exactly n times.
C22_FinalizedStaysFinal ==
    /\ []FinalizedInOrder
    /\ [][FinalizedFrozen]_vars

\* both variants have returned on three nodes that were finalized in an
\* order that is not the order of their ids, the last of them farther than
\* the first and only after its distance had improved twice
C22_Witness ==
    /\ pc = "heap_done"
    /\ nodes = 3
    /\ Len(finalized) = 3 /\ Len(permanent) = 3
    /\ finalized # <<0, 1, 2>>
    /\ permanent = finalized
    /\ At(d, finalized[1]) < At(d, finalized[3])
    /\ inserts = 4

====
